---- MODULE Spec2Model ----
(***************************************************************************)
(* Model of the ThemeBundler class of @arpadroid/style-bun                 *)
(* (src/unnamed/part_006, the bundlePromise revision of                    *)
(* src/themeBundler/themeBundler.mjs).                                     *)
(*                                                                         *)
(* A child Theme Unit X ("dark") with an optional private base Theme Unit  *)
(* Y ("light"), and a unit Z of its own for the directory of Y, run on the  *)
(* Node event loop: every await of the class is a  *)
(* microtask boundary (all file I/O of the class is synchronous), chokidar *)
(* 'change' events are macrotasks and are only delivered when no           *)
(* continuation is pending.  File contents are sequences of chunks.        *)
(***************************************************************************)
EXTENDS Integers, Sequences, FiniteSets, TLC

\* ------------------------------------------------------------------ bounds
MaxVer == 1
MaxChanges == 2
MaxCalls == 2
MaxSeqCalls == 2
MaxEvents == 3
MaxCleanups == 2
MaxInits == 2
MaxWatches == 2

\* --------------------------------------------------------------- constants
X == "X"
Y == "Y"
Z == "Z"
K == "K"
Units == {X, Y, Z, K}
\* the member themes of the Theme Collection; K is its common theme
Members == {X, Z}
NoPath == [dir |-> <<>>, name |-> <<>>]
Null == "null"
NoPromise == [id |-> 0, state |-> "none"]

\* ------------------------------------------------------------- path helpers
Last(s) == s[Len(s)]

IsPrefix(s, t) == Len(s) <= Len(t) /\ SubSeq(t, 1, Len(s)) = s

MkPath(d, n) == [dir |-> d, name |-> n]

\* PATH.extname(filePath).slice(1)
Extname(p) == IF Len(p.name) >= 2 THEN Last(p.name) ELSE ""

\* PATH.basename(filePath).split('.')[1]
SubExt(p) == IF Len(p.name) >= 2 THEN p.name[2] ELSE "undefined"

\* filePath.endsWith(s) for a suffix s given as name segments
EndsWith(p, suffix) ==
    /\ Len(p.name) > Len(suffix)
    /\ SubSeq(p.name, Len(p.name) - Len(suffix) + 1, Len(p.name)) = suffix

\* String.prototype.replace('.' + from, '.' + to): first occurrence only
RECURSIVE ReplaceFirst(_, _, _)
ReplaceFirst(segs, from, to) ==
    IF segs = <<>> THEN <<>>
    ELSE IF Head(segs) = from THEN <<to>> \o Tail(segs)
    ELSE <<Head(segs)>> \o ReplaceFirst(Tail(segs), from, to)

\* the dot-prefixed segments of a file name are all but its stem
ReplaceExt(p, from, to) ==
    IF p.name = <<>> THEN p
    ELSE MkPath(p.dir, <<Head(p.name)>> \o ReplaceFirst(Tail(p.name), from, to))

\* ------------------------------------------------------------ file contents
\* A file's content is a sequence of chunks; a chunk is either the
\* "File: <path>" comment getCSS writes in development mode (hdr) or the
\* text of one source file at one version, as written (src), as compiled
\* by sass (css) or as minified by lightningcss (min).
Chunk(id, ver, bad, form, hdr) ==
    [id |-> id, ver |-> ver, bad |-> bad, form |-> form, hdr |-> hdr]

\* what a source file holds: nothing (ver 0), well-formed text in one of
\* its versions, or text the compilers reject (bad)
Values == {[ver |-> n, bad |-> FALSE] : n \in 0..MaxVer} \cup {[ver |-> 1, bad |-> TRUE]}

SrcContent(p, v) ==
    IF v.ver = 0 THEN <<>> ELSE <<Chunk(p.name, v.ver, v.bad, "src", FALSE)>>

Original == [ver |-> 1, bad |-> FALSE]

\* `by` is the number of the pass of the owning unit that wrote the file
\* (0: written by something outside the program)
Absent == [exists |-> FALSE, data |-> <<>>, by |-> 0]

File(data, by) == [exists |-> TRUE, data |-> data, by |-> by]

RECURSIVE MapForm(_, _)
MapForm(data, form) ==
    IF data = <<>> THEN <<>>
    ELSE <<[Head(data) EXCEPT !.form = form]>> \o MapForm(Tail(data), form)

RECURSIVE DropHdr(_)
DropHdr(data) ==
    IF data = <<>> THEN <<>>
    ELSE IF Head(data).hdr THEN DropHdr(Tail(data))
    ELSE <<Head(data)>> \o DropHdr(Tail(data))

HasMalformed(data) == \E i \in 1..Len(data) : data[i].bad

\* sass <scssFile> <cssFile> (execSync): throws on malformed input
SassOutput(data) == MapForm(data, "css")

\* lightningcss transform({minify: true}): comments dropped, text minified
MinifyOutput(data) == MapForm(DropHdr(data), "min")

\* --------------------------------------------------------------- the state
VARIABLES
    cfg,            \* resolved configuration of the run (fixed after Init)
    disk,           \* path -> [exists, data, by]
    bundlePromise,  \* unit -> NoPromise or [id, state] (this.bundlePromise)
    passes,         \* the _bundle() invocations in progress
    started,        \* unit -> number of _bundle() invocations so far
    writes,         \* unit -> number of writeStyles() invocations so far
    watchers,       \* the chokidar watchers armed (this.watchers of X and Y)
    events,         \* 'change' events chokidar has not delivered yet
    handler,        \* the 'change' listener that is awaiting bundle()
    driver,         \* a caller doing `await theme.bundle()` one after another
    calls,          \* number of un-awaited bundle() calls made by user code
    changes,        \* number of edits made to source files
    accepted,       \* number of those edits that a listener of X with the
                    \* user's callback accepts
    done,           \* unit -> the last _bundle() that settled
    delivered,      \* number of 'change' events delivered to listeners
    callbacks,      \* number of invocations of the user's watch callback
    lastEvent,      \* what the listener did with the last delivered event
    writers,        \* path -> the units whose passes have written the file
    cleaned,        \* the cleanup() calls made on X and what the last one
                    \* left on disk and closed
    boot,           \* the construction of a unit up to its readiness promise
    watching,       \* the watch() calls whose continuations have not run yet
    coll            \* the Theme Collection: its initialize() in progress and
                    \* what the completed ones did

vars == <<cfg, disk, bundlePromise, passes, started, writes, watchers, events,
          handler, driver, calls, changes, accepted, done, delivered, callbacks,
          lastEvent, writers, cleaned, boot, watching, coll>>

\* ------------------------------------------------------------------ layout
XPath == <<"themes", "dark">>
YPath == <<"themes", "light">>
KPath == <<"themes", "common">>
CommonPath == MkPath(KPath, <<"common", "css">>)

Path(u) == IF u = X THEN XPath ELSE IF u = K THEN KPath ELSE YPath

\* this.themeName = this.path.split(PATH.sep).pop()
ThemeName(u) == Last(Path(u))

\* Z is built from the directory and the config file of Y
Ext(u) == IF u = Z THEN cfg.ext[Y] ELSE IF u = K THEN "css" ELSE cfg.ext[u]

BaseTheme(u) == IF u = X /\ cfg.hasBase THEN Y ELSE Null

\* the `patterns` of the constructor argument: 'components' (relative) or
\* '{cwd}/components', and '{cwd}/pages'
RawPattern(abs, dirs) == [abs |-> abs, dirs |-> dirs]

ConfigPatterns(u) ==
    IF u = X
    THEN <<RawPattern(~cfg.patIn, <<"components">>), RawPattern(TRUE, <<"pages">>)>>
    ELSE <<>>

\* fileConfig.includes of <name>.config.json
FileIncludes(u) ==
    IF u = X THEN <<"a", "b">> ELSE IF u = K THEN <<"common">> ELSE <<"ya">>

ComponentsRoot == IF cfg.patIn THEN XPath \o <<"components">> ELSE <<"components">>

SrcA == MkPath(XPath, <<"a", Ext(X)>>)
SrcB == MkPath(XPath, <<"b", Ext(X)>>)
SrcButton == MkPath(ComponentsRoot \o <<"button">>, <<"button", "dark", Ext(X)>>)
SrcMobile == MkPath(ComponentsRoot \o <<"button">>, <<"button", "mobile", Ext(X)>>)
SrcPage == MkPath(<<"pages">>, <<"page", "dark", Ext(X)>>)
SrcYA == MkPath(YPath, <<"ya", Ext(Y)>>)

Sources == {CommonPath, SrcA, SrcB, SrcButton, SrcMobile, SrcPage, SrcYA}

\* the files the environment edits while the program runs
Editable == {SrcA, SrcButton, SrcMobile, SrcYA}

\* ------------------------------------------------------------------ getters
\* the `target` of the constructor argument, when the run sets one
ConfigTarget(u) ==
    IF u = X /\ cfg.customTarget THEN MkPath(XPath, <<"out", Ext(X)>>) ELSE NoPath

GetTargetFile(u) ==
    IF ConfigTarget(u) # NoPath THEN ConfigTarget(u)
    ELSE MkPath(Path(u), <<ThemeName(u), "bundled", Ext(u)>>)

GetCSSTargetFile(u) == ReplaceExt(GetTargetFile(u), Ext(u), "css")

GetMinifiedTargetFile(u) == MkPath(Path(u), <<ThemeName(u), "min", "css">>)

Outputs(u) == {GetTargetFile(u), GetCSSTargetFile(u), GetMinifiedTargetFile(u)}

\* `${exportPath}/${themeName}`, when the run sets an exportPath
ExportDir(u) == IF u = X /\ cfg.exportPath THEN <<"export", ThemeName(u)>> ELSE <<>>

ExportedTarget(u) == MkPath(ExportDir(u), <<ThemeName(u), "bundled", "css">>)

ExportedMinified(u) == MkPath(ExportDir(u), <<ThemeName(u), "min", "css">>)

Exported(u) == IF ExportDir(u) = <<>> THEN {} ELSE {ExportedTarget(u), ExportedMinified(u)}

Paths == Sources \cup Outputs(X) \cup Outputs(Y) \cup Outputs(K) \cup Exported(X)

Exists(p) == p \in DOMAIN disk /\ disk[p].exists

\* the unit's config has a commonThemeFile: the unit of the unit tests, and
\* every member of a collection that has a common theme
HasCommonThemeFile(u) == u = X \/ (cfg.collection /\ u \in Members)

GetCommonThemeFile(u) ==
    IF ThemeName(u) = "common" THEN NoPath
    ELSE IF ~HasCommonThemeFile(u) THEN NoPath
    ELSE IF ~Exists(CommonPath) THEN NoPath
    ELSE CommonPath

GetIncludes(u) ==
    [i \in 1..Len(FileIncludes(u)) |-> MkPath(Path(u), <<FileIncludes(u)[i], Ext(u)>>)]

\* normalizePattern(pattern, addExtension): the glob is kept as its root
\* directory (everything below it, '/**/*') and the name suffix required
NormalizePattern(u, pattern, addExtension) ==
    [root |-> IF pattern.abs THEN pattern.dirs ELSE Path(u) \o pattern.dirs,
     suffix |-> IF addExtension THEN <<ThemeName(u), Ext(u)>> ELSE <<>>]

GetPatterns(u, addExtension) ==
    [i \in 1..Len(ConfigPatterns(u)) |->
        NormalizePattern(u, ConfigPatterns(u)[i], addExtension)]

GlobMatches(np) ==
    {p \in DOMAIN disk :
        /\ disk[p].exists
        /\ IsPrefix(np.root, p.dir)
        /\ (np.suffix = <<>> \/ EndsWith(p, np.suffix))}

\* glob.sync returns the matches in file-system order: any enumeration
Enumerations(S) ==
    {q \in [1..Cardinality(S) -> S] : \A a \in S : \E i \in DOMAIN q : q[i] = a}

RECURSIVE Flatten(_)
Flatten(ss) == IF ss = <<>> THEN <<>> ELSE Head(ss) \o Flatten(Tail(ss))

\* getPatternFiles(): the possible results, one per glob ordering
GetPatternFiles(u) ==
    LET pats == GetPatterns(u, TRUE)
        perPattern == {q \in [DOMAIN pats -> UNION {Enumerations(GlobMatches(pats[i])) : i \in DOMAIN pats}] :
                          \A i \in DOMAIN pats : q[i] \in Enumerations(GlobMatches(pats[i]))}
    IN  {Flatten(q) : q \in perPattern}

\* .filter(file => typeof file === 'string' && fs.existsSync(file))
RECURSIVE ExistingFiles(_)
ExistingFiles(s) ==
    IF s = <<>> THEN <<>>
    ELSE IF Head(s) # NoPath /\ Exists(Head(s)) THEN <<Head(s)>> \o ExistingFiles(Tail(s))
    ELSE ExistingFiles(Tail(s))

GetFilesPatternsFirst(u, patternFiles) ==
    ExistingFiles(<<GetCommonThemeFile(u)>> \o patternFiles \o GetIncludes(u))

\* getFiles(), for one result of getPatternFiles()
GetFiles(u, patternFiles) ==
    ExistingFiles(<<GetCommonThemeFile(u)>> \o GetIncludes(u) \o patternFiles)

\* getCSS(file): an own bundle and an empty file contribute nothing
GetCSS(u, file) ==
    IF file # CommonPath /\ EndsWith(file, <<"bundled", Ext(u)>>) THEN <<>>
    ELSE IF disk[file].data = <<>> THEN <<>>
    ELSE (IF cfg.mode = "development" THEN <<Chunk(file.name, 0, FALSE, "src", TRUE)>> ELSE <<>>)
         \o disk[file].data

RECURSIVE ConcatCSS(_, _)
ConcatCSS(u, files) ==
    IF files = <<>> THEN <<>>
    ELSE GetCSS(u, Head(files)) \o ConcatCSS(u, Tail(files))

\* ------------------------------------------------------------------- Init
Configs ==
    [ext : [{X, Y} -> {"css", "scss"}],
     sass : BOOLEAN,
     mode : {"development", "production"},
     hasBase : BOOLEAN,
     customTarget : BOOLEAN,
     patIn : BOOLEAN,
     exportPath : BOOLEAN,
     collection : BOOLEAN]

NoDone == [id |-> 0, ok |-> FALSE, wroteCSS |-> FALSE]

NoHandler == [st |-> "none", unit |-> X, w |-> 0, id |-> 0, cb |-> "none"]

NoEvent == [unit |-> X, kind |-> "none", path |-> NoPath, accepted |-> FALSE,
            called |-> FALSE, startedPass |-> FALSE]

\* settings that no code path reads are kept at one value
Relevant(c) ==
    /\ ~c.hasBase => c.ext[Y] = "css"
    /\ (c.ext[X] = "css" /\ c.ext[Y] = "css") => c.sass

\* the disk before the program runs: the sources as written, a.<ext> and
\* ya.<ext> with the given contents, no output file
InitialDisk(va, vya) ==
    [p \in Paths |->
        IF p \notin Sources THEN Absent
        ELSE File(SrcContent(p, IF p = SrcA THEN va ELSE IF p = SrcYA THEN vya ELSE Original), 0)]

\* no cleanup() was called yet
NoCleanup == [n |-> 0, left |-> {}, closed |-> {}, changes |-> 0]

\* no initialize() of the collection was called yet
NoCollection ==
    [pc |-> "idle", withWatch |-> FALSE, inits |-> 0, watches |-> 0, cleanups |-> 0,
     bundles |-> 0, results |-> {}, id |-> [u \in Members \cup {K} |-> 0]]

\* a unit whose construction is over and whose readiness promise resolved
Booted == [pc |-> "ready"]

\* nothing bundled, nothing watched
Unbundled ==
    /\ bundlePromise = [u \in Units |-> NoPromise]
    /\ passes = {}
    /\ started = [u \in Units |-> 0]
    /\ writes = [u \in Units |-> 0]
    /\ watchers = [u \in Units |-> <<>>]
    /\ events = {}
    /\ handler = NoHandler
    /\ driver = [st |-> "ready", done |-> 0, id |-> 0]
    /\ calls = 0
    /\ changes = 0
    /\ accepted = 0
    /\ done = [u \in Units |-> NoDone]
    /\ delivered = 0
    /\ callbacks = 0
    /\ lastEvent = NoEvent
    /\ writers = [p \in Paths |-> {}]
    /\ cleaned = NoCleanup
    /\ watching = {}
    /\ coll = NoCollection

\* the units after construction and readiness
Idle == Unbundled /\ boot = Booted

Init ==
    /\ cfg \in {c \in Configs : Relevant(c) /\ ~c.collection}
    /\ disk = InitialDisk(Original, Original)
    /\ Idle

\* ------------------------------------------------------------- bundle()
CoalescesNever(promise) == FALSE

\* `if (this.bundlePromise)`
Coalesces(promise) == promise # NoPromise

NewPass(u, id, minify) ==
    [id |-> id, unit |-> u, pc |-> "ready", minify |-> minify, files |-> <<>>,
     styles |-> <<>>, wrote |-> FALSE, baseId |-> 0, baseFile |-> NoPath,
     asked |-> FALSE]

\* the passes once a bundle(minify) call on u has been given the promise of
\* the outstanding pass: the pass keeps its own minify flag (`asked` records
\* that a call which joined it wanted the minified target)
Joined(ps, u, minify) ==
    {IF q.unit = u /\ minify THEN [q EXCEPT !.asked = TRUE] ELSE q : q \in ps}

BundleUpgrading(u, minify, bp, ps, st) ==
    IF Coalesces(bp[u])
    THEN [bp |-> bp,
          ps |-> {IF q.unit = u /\ minify THEN [q EXCEPT !.asked = TRUE, !.minify = TRUE]
                  ELSE q : q \in ps},
          st |-> st, id |-> bp[u].id, state |-> bp[u].state, startedPass |-> FALSE]
    ELSE [bp |-> [bp EXCEPT ![u] = [id |-> st[u] + 1, state |-> "pending"]],
          ps |-> ps \cup {NewPass(u, st[u] + 1, minify)},
          st |-> [st EXCEPT ![u] = st[u] + 1],
          id |-> st[u] + 1, state |-> "pending", startedPass |-> TRUE]

\* bundle(minify) on unit u in the state (bp, ps, st): the caller gets the
\* promise `id`; a new _bundle() runs up to its first await
Bundle(u, minify, bp, ps, st) ==
    IF Coalesces(bp[u])
    THEN [bp |-> bp, ps |-> Joined(ps, u, minify), st |-> st, id |-> bp[u].id,
          state |-> bp[u].state, startedPass |-> FALSE]
    ELSE [bp |-> [bp EXCEPT ![u] = [id |-> st[u] + 1, state |-> "pending"]],
          ps |-> ps \cup {NewPass(u, st[u] + 1, minify)},
          st |-> [st EXCEPT ![u] = st[u] + 1],
          id |-> st[u] + 1, state |-> "pending", startedPass |-> TRUE]

\* the continuations that run when the promise `id` of unit u settles
NotifyPasses(ps, u, id, ok) ==
    {IF q.pc = "base" /\ BaseTheme(q.unit) = u /\ q.baseId = id
     THEN [q EXCEPT !.pc = IF ok THEN "baseOk" ELSE "baseFail"]
     ELSE q : q \in ps}

DriverWaitsFor(u, id) == driver.st = "waiting" /\ u = X /\ driver.id = id

HandlerWaitsFor(u, id) == handler.st = "waiting" /\ handler.unit = u /\ handler.id = id

Settle(q, ok) ==
    /\ passes' = NotifyPasses(passes \ {q}, q.unit, q.id, ok)
    /\ done' = [done EXCEPT ![q.unit] =
                    [id |-> q.id, ok |-> ok,
                     wroteCSS |-> ok /\ disk[GetCSSTargetFile(q.unit)].exists
                                    /\ disk[GetCSSTargetFile(q.unit)].by = q.id]]
    /\ driver' = IF DriverWaitsFor(q.unit, q.id)
                 THEN [st |-> "ready", done |-> driver.done + 1, id |-> 0]
                 ELSE driver
    /\ handler' = IF HandlerWaitsFor(q.unit, q.id) THEN NoHandler ELSE handler
    /\ callbacks' = IF HandlerWaitsFor(q.unit, q.id) /\ ok
                       /\ handler.cb = "user"
                    THEN callbacks + 1 ELSE callbacks

\* an un-awaited theme.bundle(minify) made by user code
UserCall(minify) ==
    /\ calls < MaxCalls
    /\ calls' = calls + 1
    /\ LET r == Bundle(X, minify, bundlePromise, passes, started)
       IN  /\ bundlePromise' = r.bp
           /\ passes' = r.ps
           /\ started' = r.st
    /\ UNCHANGED <<cfg, watching, coll, cleaned, boot, writers, disk, writes, watchers, events, handler, driver, changes,
                   accepted, done, delivered, callbacks, lastEvent>>

\* an un-awaited bundle(minify) on the unit user code constructed for the
\* directory that is also the base theme of X
MemberCall(minify) ==
    /\ calls < MaxCalls
    /\ calls' = calls + 1
    /\ LET r == Bundle(Z, minify, bundlePromise, passes, started)
       IN  /\ bundlePromise' = r.bp
           /\ passes' = r.ps
           /\ started' = r.st
    /\ UNCHANGED <<cfg, watching, coll, cleaned, boot, writers, disk, writes, watchers, events, handler, driver, changes,
                   accepted, done, delivered, callbacks, lastEvent>>

\* `await theme.bundle(minify)` by a caller that awaits each call in turn
SeqCall(minify) ==
    /\ driver.st = "ready"
    /\ driver.done < MaxSeqCalls
    /\ LET r == Bundle(X, minify, bundlePromise, passes, started)
       IN  /\ bundlePromise' = r.bp
           /\ passes' = r.ps
           /\ started' = r.st
           /\ driver' = IF r.state = "rejected"
                        THEN [driver EXCEPT !.done = driver.done + 1]
                        ELSE [st |-> "waiting", done |-> driver.done, id |-> r.id]
    /\ UNCHANGED <<cfg, watching, coll, cleaned, boot, writers, disk, writes, watchers, events, handler, calls, changes,
                   accepted, done, delivered, callbacks, lastEvent>>

\* the Theme Collection calls bundle(minify) on every member, in the order
\* of its list, without awaiting one before calling the next
BundleMembers(minify, bp, ps, st) ==
    LET rx == Bundle(X, minify, bp, ps, st)
        rz == Bundle(Z, minify, rx.bp, rx.ps, rx.st)
    IN  [bp |-> rz.bp, ps |-> rz.ps, st |-> rz.st,
         id |-> [m \in Members |-> IF m = X THEN rx.id ELSE rz.id]]

\* ---------------------------------------------------------- chokidar side
\* chokidar.watch(root): the watcher sees every file below its root
Covers(watcher, p) == IsPrefix(watcher.root, p.dir)

\* the 'change' events a write to the files S raises ('add' for a file that
\* did not exist has no listener)
Emit(S) ==
    UNION {UNION {{[unit |-> u, w |-> i, path |-> p] :
                      i \in {j \in 1..Len(watchers[u]) : Covers(watchers[u][j], p)}} :
                  u \in Units} :
           p \in {p2 \in S : disk[p2].exists}}

\* ----------------------------------------------------- the steps of a pass
BaseThemeOutputRaw(b) == GetTargetFile(b)

\* the file bundleBaseTheme() reads after `await this.baseTheme.bundle()`
BaseThemeOutput(b) == GetCSSTargetFile(b)

AwaitBaseNot(state) == "baseOk"

\* `await this.baseTheme?.bundle()`: where mergeFiles() is once the call has
\* returned a promise in the given state
AwaitBase(state) == IF state = "rejected" THEN "baseFail" ELSE "base"

Replace(q, q2) == (passes \ {q}) \cup {q2}

\* _bundle() after `await this.promise`: writeStyles() -> mergeFiles() up to
\* `await this.bundleBaseTheme()`, or to its end when there is no base theme
PassMerge(q) ==
    /\ q \in passes /\ q.pc = "ready"
    /\ writes' = [writes EXCEPT ![q.unit] = writes[q.unit] + 1]
    /\ \E pf \in GetPatternFiles(q.unit) :
        LET files == GetFiles(q.unit, pf)
            b == BaseTheme(q.unit)
        IN  IF b = Null
            THEN /\ passes' = Replace(q, [q EXCEPT !.pc = "write", !.files = files,
                                                   !.styles = ConcatCSS(q.unit, files)])
                 /\ UNCHANGED <<bundlePromise, started>>
            ELSE LET r == Bundle(b, FALSE, bundlePromise, passes \ {q}, started)
                 IN  /\ passes' = r.ps \cup
                            {[q EXCEPT !.pc = AwaitBase(r.state), !.files = files,
                                       !.baseId = r.id]}
                     /\ bundlePromise' = r.bp
                     /\ started' = r.st
    /\ UNCHANGED <<cfg, watching, coll, cleaned, boot, writers, disk, watchers, events, handler, driver, calls, changes,
                   accepted, done, delivered, callbacks, lastEvent>>

\* bundleBaseTheme() after the await, then the rest of mergeFiles()
PassRead(q) ==
    /\ q \in passes /\ q.pc = "baseOk"
    /\ LET tf == BaseThemeOutput(BaseTheme(q.unit))
       IN  IF Exists(tf)
           THEN passes' = Replace(q, [q EXCEPT !.pc = "write", !.baseFile = tf,
                              !.styles = disk[tf].data \o ConcatCSS(q.unit, q.files)])
           ELSE passes' = Replace(q, [q EXCEPT !.pc = "baseFail"])
    /\ UNCHANGED <<cfg, watching, coll, cleaned, boot, writers, disk, bundlePromise, started, writes, watchers, events, handler,
                   driver, calls, changes, accepted, done, delivered, callbacks, lastEvent>>

\* the promise of _bundle() rejects; nothing resets this.bundlePromise
Reject(q) ==
    /\ bundlePromise' = IF bundlePromise[q.unit].id = q.id
                        THEN [bundlePromise EXCEPT ![q.unit].state = "rejected"]
                        ELSE bundlePromise
    /\ Settle(q, FALSE)

\* `await this.baseTheme.bundle()` or fs.readFileSync(targetFile) threw
PassThrow(q) ==
    /\ q \in passes /\ q.pc = "baseFail"
    /\ Reject(q)
    /\ UNCHANGED <<cfg, watching, coll, cleaned, boot, writers, disk, started, writes, watchers, events, calls, changes,
                   accepted, delivered, lastEvent>>

\* the record of who wrote what, after unit u has written the files S
Written(S, u) == [p \in DOMAIN writers |-> IF p \in S THEN writers[p] \cup {u} ELSE writers[p]]

\* writeStyles() after `await this.mergeFiles()`
PassWrite(q) ==
    /\ q \in passes /\ q.pc = "write"
    /\ LET tf == GetTargetFile(q.unit)
       IN  IF q.styles = <<>>
           THEN /\ passes' = Replace(q, [q EXCEPT !.pc = "transform"])
                /\ UNCHANGED <<disk, events, writers>>
           ELSE /\ passes' = Replace(q, [q EXCEPT !.pc = "transform", !.wrote = TRUE])
                /\ disk' = [disk EXCEPT ![tf] = File(q.styles, q.id)]
                /\ writers' = Written({tf}, q.unit)
                /\ events' = events \cup Emit({tf})
    /\ UNCHANGED <<cfg, watching, coll, cleaned, boot, bundlePromise, started, writes, watchers, handler, driver, calls,
                   changes, accepted, done, delivered, callbacks, lastEvent>>

MinifiesOnRequest(minify) == minify

\* `if (MODE === 'production' || minify === true)`
Minifies(minify) == cfg.mode = "production" \/ minify

\* the files exportBundle() copies, the disk being d
ExportedFrom(u, d) ==
    IF ExportDir(u) = <<>> THEN {}
    ELSE (IF d[GetTargetFile(u)].exists THEN {ExportedTarget(u)} ELSE {})
         \cup (IF d[GetMinifiedTargetFile(u)].exists THEN {ExportedMinified(u)} ELSE {})

\* exportBundle() in pass `id` of unit u: the disk d after the copies
ExportBundle(u, d, id) ==
    [p \in DOMAIN d |->
        IF p \notin ExportedFrom(u, d) THEN d[p]
        ELSE IF p = ExportedTarget(u) THEN File(d[GetTargetFile(u)].data, id)
        ELSE File(d[GetMinifiedTargetFile(u)].data, id)]

\* _bundle() after `await this.writeStyles()`: sass, lightningcss, export
PassTransform(q) ==
    /\ q \in passes /\ q.pc = "transform"
    /\ LET u == q.unit
           tf == GetTargetFile(u)
           compiles == q.wrote /\ Ext(u) = "scss" /\ cfg.sass
           targetCSS == ReplaceExt(tf, "scss", "css")
           disk1 == IF compiles
                    THEN [disk EXCEPT ![targetCSS] = File(SassOutput(disk[tf].data), q.id)]
                    ELSE disk
           css == IF compiles THEN disk1[targetCSS].data ELSE q.styles
           minifies == Minifies(q.minify)
           minFile == IF compiles
                      THEN ReplaceExt(GetMinifiedTargetFile(u), "scss", "css")
                      ELSE GetMinifiedTargetFile(u)
           disk2 == IF minifies
                    THEN [disk1 EXCEPT ![minFile] = File(MinifyOutput(css), q.id)]
                    ELSE disk1
       IN  IF compiles /\ HasMalformed(disk[tf].data)
           THEN /\ Reject(q)
                /\ UNCHANGED <<disk, events, writers>>
           ELSE IF minifies /\ HasMalformed(css)
           THEN /\ Reject(q)
                /\ disk' = disk1
                /\ writers' = Written(IF compiles THEN {targetCSS} ELSE {}, u)
                /\ events' = events \cup (IF compiles THEN Emit({targetCSS}) ELSE {})
           ELSE /\ disk' = ExportBundle(u, disk2, q.id)
                /\ writers' = Written((IF compiles THEN {targetCSS} ELSE {})
                                        \cup (IF minifies THEN {minFile} ELSE {})
                                        \cup ExportedFrom(u, disk2), u)
                /\ events' = events \cup (IF compiles THEN Emit({targetCSS}) ELSE {})
                                     \cup (IF minifies THEN Emit({minFile}) ELSE {})
                /\ passes' = Replace(q, [q EXCEPT !.pc = "clear"])
                /\ bundlePromise' = IF bundlePromise[u].id = q.id
                                    THEN [bundlePromise EXCEPT ![u].state = "fulfilled"]
                                    ELSE bundlePromise
                /\ UNCHANGED <<driver, handler, callbacks, done>>
    /\ UNCHANGED <<cfg, watching, coll, cleaned, boot, started, writes, watchers, calls, changes, accepted, delivered,
                   lastEvent>>

\* the .then() of bundle(): this.bundlePromise = null, then the awaiting
\* callers resume
PassClear(q) ==
    /\ q \in passes /\ q.pc = "clear"
    /\ bundlePromise' = [bundlePromise EXCEPT ![q.unit] = NoPromise]
    /\ Settle(q, TRUE)
    /\ UNCHANGED <<cfg, watching, coll, cleaned, boot, writers, disk, started, writes, watchers, events, calls, changes,
                   accepted, delivered, lastEvent>>

\* ------------------------------------------------------------------ watch
\* no continuation of the program is pending: the event loop takes the next
\* macrotask
Quiescent == passes = {} /\ handler.st = "none"

Watcher(kind, root, bundle, minify, cb, cbMinify) ==
    [kind |-> kind, root |-> root, bundle |-> bundle, minify |-> minify, cb |-> cb,
     cbMinify |-> cbMinify]

\* watchPattern(): the root of the pattern is pattern.replace('/**/*', '')
WatchPatterns(u, bundle, minify, cb, cbMinify) ==
    [i \in 1..Len(GetPatterns(u, FALSE)) |->
        Watcher("pattern", GetPatterns(u, FALSE)[i].root, bundle, minify, cb, cbMinify)]

\* watchPatterns() then watchPath(this.path)
WatchersOf(u, bundle, minify, cb, cbMinify) ==
    WatchPatterns(u, bundle, minify, cb, cbMinify)
        \o <<Watcher("path", Path(u), bundle, minify, cb, cbMinify)>>

\* theme.watch(callback, bundle, minify); hasCallback tells whether a
\* callback is passed
Watch(hasCallback, bundle, minify) ==
    /\ Quiescent
    /\ watchers' =
         [u \in Units |->
            IF u = X
            THEN watchers[X] \o WatchersOf(X, bundle, minify,
                                    IF hasCallback THEN "user" ELSE "none", FALSE)
            ELSE IF u = Y /\ BaseTheme(X) = Y
            THEN watchers[Y] \o WatchersOf(Y, FALSE, FALSE, "rebundle", minify)
            ELSE watchers[u]]
    /\ UNCHANGED <<cfg, watching, coll, cleaned, boot, writers, disk, bundlePromise, passes, started, writes, events, handler,
                   driver, calls, changes, accepted, done, delivered, callbacks, lastEvent>>

\* theme.watch(callback, bundle, minify) called and not awaited: the call
\* runs up to `await this.promise`
WatchCall(hasCallback, bundle, minify) ==
    /\ watching' = watching \cup
          {[unit |-> X, pc |-> "promise", bundle |-> bundle, minify |-> minify,
            cb |-> IF hasCallback THEN "user" ELSE "none", cbMinify |-> FALSE]}
    /\ UNCHANGED <<cfg, coll, cleaned, boot, writers, disk, bundlePromise, passes, started,
                   writes, watchers, events, handler, driver, calls, changes, accepted,
                   done, delivered, callbacks, lastEvent>>

\* watch() after `await this.promise`: with a base theme it awaits the base's
\* readiness; without one it arms the unit's watchers
WatchReady(w) ==
    /\ w \in watching /\ w.pc = "promise"
    /\ IF BaseTheme(w.unit) # Null
       THEN /\ watching' = (watching \ {w}) \cup {[w EXCEPT !.pc = "basePromise"]}
            /\ UNCHANGED watchers
       ELSE /\ watching' = watching \ {w}
            /\ watchers' = [watchers EXCEPT ![w.unit] =
                               @ \o WatchersOf(w.unit, w.bundle, w.minify, w.cb, w.cbMinify)]
    /\ UNCHANGED <<cfg, coll, cleaned, boot, writers, disk, bundlePromise, passes, started,
                   writes, events, handler, driver, calls, changes, accepted, done,
                   delivered, callbacks, lastEvent>>

\* watch() after `await this.baseTheme.promise`: the base's watch() is
\* called and not awaited, then the unit's own watchers are armed
WatchArm(w) ==
    /\ w \in watching /\ w.pc = "basePromise"
    /\ watching' = (watching \ {w}) \cup
          {[unit |-> BaseTheme(w.unit), pc |-> "promise", bundle |-> FALSE,
            minify |-> FALSE, cb |-> "rebundle", cbMinify |-> w.minify]}
    /\ watchers' = [watchers EXCEPT ![w.unit] =
                       @ \o WatchersOf(w.unit, w.bundle, w.minify, w.cb, w.cbMinify)]
    /\ UNCHANGED <<cfg, coll, cleaned, boot, writers, disk, bundlePromise, passes, started,
                   writes, events, handler, driver, calls, changes, accepted, done,
                   delivered, callbacks, lastEvent>>

\* the test of the 'change' listener of watchPattern()
WatchPatternAccepts(u, p) == Ext(u) = Extname(p) /\ SubExt(p) = ThemeName(u)

\* the test of the 'change' listener of watchPath()
WatchPathAccepts(u, p) ==
    /\ ~EndsWith(p, <<"min", "css">>)
    /\ p.name # <<>>
    /\ p.name # <<ThemeName(u), "bundled", Ext(u)>>
    /\ Extname(p) = Ext(u)

Accepts(u, watcher, p) ==
    IF watcher.kind = "pattern" THEN WatchPatternAccepts(u, p) ELSE WatchPathAccepts(u, p)

\* the edit of p is one the user's callback is to be told about
UserAccepts(p) ==
    \E i \in 1..Len(watchers[X]) :
        /\ watchers[X][i].cb = "user"
        /\ Covers(watchers[X][i], p)
        /\ Accepts(X, watchers[X][i], p)

\* something outside the program rewrites a source file, once chokidar has
\* delivered the events of the previous edit of that file
Change(p, v) ==
    /\ changes < MaxChanges
    /\ p \in Sources
    /\ disk[p].data # SrcContent(p, v)
    /\ \A e \in events : e.path # p
    /\ changes' = changes + 1
    /\ accepted' = IF UserAccepts(p) THEN accepted + 1 ELSE accepted
    /\ disk' = [disk EXCEPT ![p] = File(SrcContent(p, v), 0)]
    /\ events' = events \cup Emit({p})
    /\ UNCHANGED <<cfg, watching, coll, cleaned, boot, writers, bundlePromise, passes, started, writes, watchers, handler, driver,
                   calls, done, delivered, callbacks, lastEvent>>

\* chokidar delivers a 'change' event to its listener
Deliver(e) ==
    /\ e \in events
    /\ Quiescent
    /\ events' = events \ {e}
    /\ LET u == e.unit
           wt == watchers[u][e.w]
           ok == Accepts(u, wt, e.path)
           r1 == IF ok /\ wt.bundle
                 THEN Bundle(u, wt.minify, bundlePromise, passes, started)
                 ELSE [bp |-> bundlePromise, ps |-> passes, st |-> started, id |-> 0,
                       state |-> "none", startedPass |-> FALSE]
           r2 == IF ok /\ ~wt.bundle /\ wt.cb = "rebundle"
                 THEN Bundle(X, wt.cbMinify, r1.bp, r1.ps, r1.st)
                 ELSE IF ok /\ ~wt.bundle /\ wt.cb = "rebundleAll"
                 THEN BundleMembers(wt.cbMinify, r1.bp, r1.ps, r1.st)
                 ELSE r1
       IN  /\ ok => delivered < MaxEvents
           /\ delivered' = IF ok THEN delivered + 1 ELSE delivered
           /\ bundlePromise' = r2.bp
           /\ passes' = r2.ps
           /\ started' = r2.st
           /\ handler' = IF ok /\ wt.bundle /\ r1.state # "rejected"
                         THEN [st |-> "waiting", unit |-> u, w |-> e.w, id |-> r1.id, cb |-> wt.cb]
                         ELSE NoHandler
           /\ callbacks' = IF ok /\ ~wt.bundle /\ wt.cb = "user"
                           THEN callbacks + 1 ELSE callbacks
           /\ lastEvent' = [unit |-> u, kind |-> wt.kind, path |-> e.path,
                            accepted |-> ok, called |-> ok /\ wt.bundle,
                            startedPass |-> r1.startedPass]
    /\ UNCHANGED <<cfg, watching, coll, cleaned, boot, writers, disk, writes, watchers, driver, calls, changes, accepted, done>>

\* ------------------------------------------------------------ construction
Undefined == "undefined"

\* the keys of a ThemeBundlerConfigType the model follows
Keys == {"extension", "verbose", "baseTheme", "includes"}

\* the value ['a', 'b'] of the key includes, and the value []
IncludesAB == "a,b"
NoIncludes == "[]"

KeyValues(k) ==
    IF k = "extension" THEN {"css", "scss"}
    ELSE IF k = "verbose" THEN {"true", "false"}
    ELSE IF k = "includes" THEN {IncludesAB}
    ELSE {"themes/light", "themes/none"}

\* the config objects: a key is set or undefined
ConfigObjects ==
    {c \in [Keys -> {Undefined} \cup UNION {KeyValues(k) : k \in Keys}] :
        \A k \in Keys : c[k] \in KeyValues(k) \cup {Undefined}}

EmptyObject == [k \in Keys |-> Undefined]

GetDefaultConfig == [k \in Keys |-> IF k = "extension" THEN "css"
                                    ELSE IF k = "verbose" THEN "false"
                                    ELSE IF k = "includes" THEN NoIncludes ELSE Undefined]

\* Object.assign(target, source)
Assign(target, source) ==
    [k \in Keys |-> IF source[k] # Undefined THEN source[k] ELSE target[k]]

\* <path>/<name>.config.json: missing, not JSON, or a JSON object
ConfigFiles ==
    {[state |-> st, payload |-> EmptyObject] : st \in {"missing", "invalid"}}
        \cup {[state |-> "valid", payload |-> c] : c \in ConfigObjects}

NoBase == [path |-> Undefined, extension |-> Undefined]

NoValue == [state |-> "pending", value |-> EmptyObject]

\* the unit has constructed no base unit
NoUnit == [pc |-> "none"]

\* `new ThemeBundler(arg)` about to run, the theme path existing or not
NewUnit(arg, pathExists, file) ==
    [pc |-> "new", arg |-> arg, pathExists |-> pathExists, file |-> file,
     config |-> EmptyObject, baseThemeArg |-> Undefined, loaded |-> NoValue,
     fileConfig |-> EmptyObject, configured |-> "pending", extension |-> Undefined,
     baseTheme |-> NoBase, promise |-> "none", base |-> NoUnit]

\* getExtension()
GetExtension(config) == IF config["extension"] # Undefined THEN config["extension"] ELSE "css"

\* the file stems an includes value lists
Stems(v) == IF v = IncludesAB THEN <<"a", "b">> ELSE <<>>

\* getIncludes() of the unit under construction:
\* `(this.fileConfig?.includes ?? []).map(...)`
UnitIncludes ==
    [i \in 1..Len(Stems(boot.fileConfig["includes"])) |->
        MkPath(XPath, <<Stems(boot.fileConfig["includes"])[i], boot.extension>>)]

\* the constructor on the unit record b: setConfig(config), then
\* _initialize(), _initializeConfig() and loadFileConfig() up to the first
\* await
Constructed(b) ==
    LET config == Assign(GetDefaultConfig, b.arg)
    IN  [b EXCEPT !.pc = "load", !.config = config,
                  !.baseThemeArg = config["baseTheme"],
                  !.promise = "pending"]

\* loadFileConfig() settles: {} for a missing file, JSON.parse(payload)
\* otherwise, which throws on a payload that is not JSON
FileConfigLoaded(b) ==
    [b EXCEPT !.pc = "config",
              !.loaded = IF b.file.state = "invalid"
                         THEN [state |-> "rejected", value |-> EmptyObject]
                         ELSE [state |-> "resolved", value |-> b.file.payload]]

\* _initializeConfig() after `await this.loadFileConfig()`
ConfigInitialized(b) ==
    IF b.loaded.state = "rejected"
    THEN [b EXCEPT !.pc = "initialize", !.configured = "rejected"]
    ELSE LET config == Assign(b.config, b.loaded.value)
             extension == GetExtension(config)
         IN  [b EXCEPT !.pc = "initialize", !.configured = "resolved",
                       !.fileConfig = b.loaded.value,
                       !.config = [config EXCEPT !["extension"] = extension],
                       !.extension = extension]

\* the base theme directories and what their config file can be: light
\* exists, with no config file or with one that declares no base theme or
\* the theme dark as its base theme; none does not exist
DarkPath == "themes/dark"

BaseFiles(path) ==
    IF path = "themes/light"
    THEN {[state |-> "missing", payload |-> EmptyObject],
          [state |-> "valid", payload |-> EmptyObject],
          [state |-> "valid", payload |-> [EmptyObject EXCEPT !["baseTheme"] = DarkPath]]}
    ELSE {[state |-> "missing", payload |-> EmptyObject]}

SetBaseThemeArgChained(extension, file) ==
    [EmptyObject EXCEPT !["extension"] = extension,
                        !["baseTheme"] = file.payload["baseTheme"]]

\* the argument of `new ThemeBundler({path: baseThemePath, extension})`
SetBaseThemeArg(extension, file) == [EmptyObject EXCEPT !["extension"] = extension]

\* _initialize() after `await this._initializeConfig()`:
\* `baseTheme && this.setBaseTheme(baseTheme)`, which constructs the base
\* unit, then the promise resolves
Initialized(b, file) ==
    IF b.configured = "rejected"
    THEN [b EXCEPT !.pc = "done", !.promise = "rejected"]
    ELSE IF b.baseThemeArg = Undefined
    THEN [b EXCEPT !.pc = "done", !.promise = "resolved"]
    ELSE [b EXCEPT !.pc = "done", !.promise = "resolved",
                   !.baseTheme = [path |-> b.baseThemeArg, extension |-> b.extension],
                   !.base = Constructed(NewUnit(SetBaseThemeArg(b.extension, file),
                                                b.baseThemeArg = "themes/light", file))]

BootFrame ==
    UNCHANGED <<cfg, watching, coll, disk, bundlePromise, passes, started, writes,
                watchers, events, handler, driver, calls, changes, accepted, done,
                delivered, callbacks, lastEvent, writers, cleaned>>

Construct ==
    /\ boot.pc = "new"
    /\ boot' = Constructed(boot)
    /\ BootFrame

LoadFileConfig ==
    /\ boot.pc = "load"
    /\ boot' = FileConfigLoaded(boot)
    /\ BootFrame

InitializeConfig ==
    /\ boot.pc = "config"
    /\ boot' = ConfigInitialized(boot)
    /\ BootFrame

Initialize ==
    /\ boot.pc = "initialize"
    /\ \E file \in BaseFiles(boot.baseThemeArg) : boot' = Initialized(boot, file)
    /\ BootFrame

\* the continuations of the base unit that setBaseTheme() constructed
BaseActive == boot.pc = "done" /\ boot.base.pc # "none"

BaseLoadFileConfig ==
    /\ BaseActive
    /\ boot.base.pc = "load"
    /\ boot' = [boot EXCEPT !.base = FileConfigLoaded(boot.base)]
    /\ BootFrame

BaseInitializeConfig ==
    /\ BaseActive
    /\ boot.base.pc = "config"
    /\ boot' = [boot EXCEPT !.base = ConfigInitialized(boot.base)]
    /\ BootFrame

BaseInitialize ==
    /\ BaseActive
    /\ boot.base.pc = "initialize"
    /\ \E file \in BaseFiles(boot.base.baseThemeArg) :
          boot' = [boot EXCEPT !.base = Initialized(boot.base, file)]
    /\ BootFrame

\* ---------------------------------------------------------------- cleanup()
CleanedUnitsOwn(u) == {u}

\* the units a cleanup() of u cleans: `this.baseTheme.cleanup()`
CleanedUnits(u) == IF BaseTheme(u) = Null THEN {u} ELSE {u, BaseTheme(u)}

\* the names cleanup() builds from this.themeName and this.extension
NamesToClean(name, ext) ==
    {<<name, "bundled", ext>>, <<name, "min", "css">>, <<name, "bundled", "css", "map">>}
        \cup (IF ext = "scss" THEN {<<name, "bundled", "css">>} ELSE {})

CleanupNames(u) == NamesToClean(ThemeName(u), Ext(u))

\* the files cleanup() of u unlinks when they exist, in the theme directory
\* and in `${exportPath}/${name}`
CleanupFiles(u) ==
    {MkPath(Path(u), f) : f \in CleanupNames(u)}
        \cup (IF ExportDir(u) = <<>> THEN {}
              ELSE {MkPath(ExportDir(u), f) : f \in CleanupNames(u)})

\* the files a bundle of X is found at: getTargetFile(),
\* getMinifiedTargetFile() and the copies of exportBundle()
BundleFiles == {GetTargetFile(X), GetMinifiedTargetFile(X)} \cup Exported(X)

ClearWatchersKeep(ws, us) == ws

\* clearWatchers() of the units us: every handle of this.watchers is closed
\* and the list emptied
ClearWatchers(ws, us) == [u \in Units |-> IF u \in us THEN <<>> ELSE ws[u]]

\* theme.cleanup() called by user code on X; watcher.close() stops the
\* watcher at once, its undelivered events are never emitted
Cleanup ==
    /\ cleaned.n < MaxCleanups
    /\ LET us == CleanedUnits(X)
           gone == UNION {CleanupFiles(u) : u \in us}
           disk1 == [p \in DOMAIN disk |-> IF p \in gone THEN Absent ELSE disk[p]]
       IN  /\ disk' = disk1
           /\ watchers' = ClearWatchers(watchers, us)
           /\ events' = {e \in events : e.unit \notin us}
           /\ cleaned' = [n |-> cleaned.n + 1,
                          left |-> {p \in BundleFiles : disk1[p].exists},
                          closed |-> {u \in us : watchers[u] # <<>>},
                          changes |-> changes]
    /\ UNCHANGED <<cfg, watching, coll, boot, writers, bundlePromise, passes, started, writes, handler, driver,
                   calls, changes, accepted, done, delivered, callbacks, lastEvent>>

\* theme.cleanup() called by user code on the unit under construction, at
\* any point from the return of the constructor on: it works on
\* this.extension and this.baseTheme as they are at that point
UnitCleanup ==
    /\ boot.pc \in {"load", "config", "initialize", "done"}
    /\ cleaned.n < MaxCleanups
    /\ LET names == NamesToClean(ThemeName(X), boot.extension)
           own == {MkPath(Path(X), f) : f \in names}
                     \cup (IF ExportDir(X) = <<>> THEN {}
                           ELSE {MkPath(ExportDir(X), f) : f \in names})
           base == IF boot.base.pc = "none" THEN {}
                   ELSE {MkPath(Path(Y), f) :
                            f \in NamesToClean(ThemeName(Y), boot.base.extension)}
           gone == own \cup base
           disk1 == [p \in DOMAIN disk |-> IF p \in gone THEN Absent ELSE disk[p]]
       IN  /\ disk' = disk1
           /\ watchers' = ClearWatchers(watchers, {X} \cup (IF boot.base.pc = "none"
                                                            THEN {} ELSE {Y}))
           /\ cleaned' = [n |-> cleaned.n + 1,
                          left |-> {p \in BundleFiles : disk1[p].exists},
                          closed |-> {},
                          changes |-> changes]
    /\ UNCHANGED <<cfg, watching, coll, boot, writers, bundlePromise, passes, started, writes,
                   events, handler, driver, calls, changes, accepted, done, delivered,
                   callbacks, lastEvent>>

\* ------------------------------------------------------- Theme Collection
\* the units the collection owns, and the base themes they constructed
CollectionUnits == UNION {CleanedUnits(u) : u \in Members \cup {K}}

\* watch() of the collection: watch() on every member, and on the common
\* theme a watch that bundles nothing itself and whose callback bundles
\* every member
CollectionWatchers(ws) ==
    [u \in Units |->
        IF u \in Members THEN ws[u] \o WatchersOf(u, TRUE, FALSE, "none", FALSE)
        ELSE IF u = K THEN ws[u] \o WatchersOf(K, FALSE, FALSE, "rebundleAll", FALSE)
        ELSE ws[u]]

CollectionWatch ==
    /\ cfg.collection
    /\ Quiescent
    /\ coll.pc = "idle"
    /\ watchers' = CollectionWatchers(watchers)
    /\ UNCHANGED <<cfg, watching, coll, cleaned, boot, writers, disk, bundlePromise, passes, started,
                   writes, events, handler, driver, calls, changes, accepted, done,
                   delivered, callbacks, lastEvent>>

\* the promise `id` of unit u has settled
Settled(u, id) == \A q \in passes : ~(q.unit = u /\ q.id = id)

\* initialize(withWatch) of the collection, up to its first await: cleanup()
\* of every unit, then bundle(), which starts with the common theme
CollectionInitialize(withWatch) ==
    /\ cfg.collection
    /\ coll.pc = "idle"
    /\ coll.inits < MaxInits
    /\ LET us == CollectionUnits
           gone == UNION {CleanupFiles(u) : u \in us}
           r == Bundle(K, FALSE, bundlePromise, passes, started)
       IN  /\ disk' = [p \in DOMAIN disk |-> IF p \in gone THEN Absent ELSE disk[p]]
           /\ watchers' = ClearWatchers(watchers, us)
           /\ events' = {e \in events : e.unit \notin us}
           /\ bundlePromise' = r.bp
           /\ passes' = r.ps
           /\ started' = r.st
           /\ coll' = [coll EXCEPT !.pc = "common", !.withWatch = withWatch,
                                   !.cleanups = 1, !.bundles = 1, !.results = {},
                                   !.id = [u \in Members \cup {K} |->
                                              IF u = K THEN r.id ELSE 0]]
    /\ UNCHANGED <<cfg, watching, cleaned, boot, writers, writes, handler, driver, calls, changes,
                   accepted, done, delivered, callbacks, lastEvent>>

\* bundle() of the collection once the common theme's bundle has settled:
\* every member is bundled
CollectionBundleMembers ==
    /\ coll.pc = "common"
    /\ Settled(K, coll.id[K])
    /\ LET r == BundleMembers(FALSE, bundlePromise, passes, started)
       IN  /\ bundlePromise' = r.bp
           /\ passes' = r.ps
           /\ started' = r.st
           /\ coll' = [coll EXCEPT !.pc = "members",
                                   !.id = [u \in Members \cup {K} |->
                                              IF u = K THEN coll.id[K] ELSE r.id[u]]]
    /\ UNCHANGED <<cfg, watching, cleaned, boot, writers, disk, writes, watchers, events, handler,
                   driver, calls, changes, accepted, done, delivered, callbacks, lastEvent>>

\* initialize() once every member's bundle has settled, fulfilled or not:
\* one result per member, then watch() when withWatch is set
CollectionFinish ==
    /\ coll.pc = "members"
    /\ \A m \in Members : Settled(m, coll.id[m])
    /\ watchers' = IF coll.withWatch THEN CollectionWatchers(watchers) ELSE watchers
    /\ coll' = [coll EXCEPT !.pc = "idle", !.inits = coll.inits + 1,
                            !.watches = IF coll.withWatch THEN coll.watches + 1
                                        ELSE coll.watches,
                            !.results = {[unit |-> m, id |-> coll.id[m]] : m \in Members}]
    /\ UNCHANGED <<cfg, watching, cleaned, boot, writers, disk, bundlePromise, passes, started, writes,
                   events, handler, driver, calls, changes, accepted, done, delivered,
                   callbacks, lastEvent>>

\* ------------------------------------------------------------------- Next
PassStep ==
    \E q \in passes :
        \/ PassMerge(q)
        \/ PassRead(q)
        \/ PassThrow(q)
        \/ PassWrite(q)
        \/ PassTransform(q)
        \/ PassClear(q)

\* the (callback?, bundle, minify) arguments watch() is called with
WatchArgs == {<<TRUE, TRUE, FALSE>>, <<TRUE, TRUE, TRUE>>, <<TRUE, FALSE, FALSE>>,
              <<FALSE, TRUE, FALSE>>}

Next ==
    \/ \E minify \in BOOLEAN : UserCall(minify)
    \/ SeqCall(FALSE)
    \/ PassStep
    \/ watchers[X] = <<>> /\ \E args \in WatchArgs : Watch(args[1], args[2], args[3])
    \/ \E p \in Editable, v \in Values : Change(p, v)
    \/ \E e \in events : Deliver(e)
    \/ Cleanup
    \/ \E minify \in BOOLEAN : MemberCall(minify)
    \/ Construct
    \/ LoadFileConfig
    \/ InitializeConfig
    \/ Initialize
    \/ BaseLoadFileConfig
    \/ BaseInitializeConfig
    \/ BaseInitialize
    \/ \E args \in WatchArgs : WatchCall(args[1], args[2], args[3])
    \/ \E w \in watching : WatchReady(w) \/ WatchArm(w)
    \/ UnitCleanup
    \/ CollectionWatch
    \/ \E withWatch \in BOOLEAN : CollectionInitialize(withWatch)
    \/ CollectionBundleMembers
    \/ CollectionFinish

Spec == Init /\ [][Next]_vars

\* user code that only calls bundle(), un-awaited and awaited, on sources
\* of any content: no watcher is armed
InitCalls ==
    /\ cfg \in {c \in Configs : Relevant(c) /\ ~c.customTarget /\ ~c.patIn /\ ~c.exportPath
                                  /\ ~c.collection}
    /\ \E va \in Values, vya \in Values :
          /\ ~cfg.hasBase => vya = Original
          /\ disk = InitialDisk(va, vya)
    /\ Idle

NextCalls ==
    \/ \E minify \in BOOLEAN : UserCall(minify)
    \/ SeqCall(FALSE)
    \/ PassStep

SpecCalls == InitCalls /\ [][NextCalls]_vars

\* user code that awaits each bundle() while the sources of X and of its
\* base theme are edited
InitMerge == Init /\ ~cfg.customTarget /\ ~cfg.patIn

NextMerge ==
    \/ SeqCall(FALSE)
    \/ PassStep
    \/ \E p \in {SrcA, SrcYA}, v \in Values : Change(p, v)

SpecMerge == InitMerge /\ [][NextMerge]_vars

\* user code that calls watch() and then leaves the unit to its watchers
\* (layouts that depart from the default one in at most one of: a base theme,
\* a custom target, a pattern root inside the theme directory)
InitWatch ==
    /\ Init
    /\ ~cfg.exportPath
    /\ cfg.mode = "development"
    /\ cfg.hasBase => ~cfg.customTarget /\ ~cfg.patIn
    /\ cfg.customTarget => ~cfg.patIn

NextWatch ==
    \/ watchers[X] = <<>> /\ \E args \in WatchArgs : Watch(args[1], args[2], args[3])
    \/ watchers[X] # <<>> /\ \E p \in Editable, v \in Values : Change(p, v)
    \/ \E e \in events : Deliver(e)
    \/ PassStep

SpecWatch == InitWatch /\ [][NextWatch]_vars

\* user code that arms the watchers of X, lets edits be bundled and calls
\* cleanup() at any moment (css themes built for production, with a base
\* theme or with a custom target and an export directory)
InitCleanup ==
    /\ Init
    /\ cfg.mode = "production" /\ cfg.sass /\ ~cfg.patIn
    /\ cfg.ext[X] = "css" /\ cfg.ext[Y] = "css"
    /\ cfg.hasBase => ~cfg.customTarget /\ ~cfg.exportPath

\* the source that is edited: one of the base theme when there is one
CleanupEdited == IF cfg.hasBase THEN SrcYA ELSE SrcA

NextCleanup ==
    \/ watchers[X] = <<>> /\ Watch(TRUE, TRUE, FALSE)
    \/ \E v \in Values : Change(CleanupEdited, v)
    \/ \E e \in events : Deliver(e)
    \/ PassStep
    \/ Cleanup

SpecCleanup == InitCleanup /\ [][NextCleanup]_vars

\* user code that calls watch() on a unit with a base theme; afterwards only
\* the source of the base theme is edited
InitBase ==
    /\ InitWatch
    /\ cfg.hasBase

NextBase ==
    \/ watchers[X] = <<>> /\ \E args \in WatchArgs : Watch(args[1], args[2], args[3])
    \/ watchers[X] # <<>> /\ \E v \in Values : Change(SrcYA, v)
    \/ \E e \in events : Deliver(e)
    \/ PassStep

SpecBase == InitBase /\ [][NextBase]_vars

\* user code that bundles X, which has a base theme, and also the unit it
\* constructed for the directory of that base theme
InitOwners ==
    /\ Init
    /\ cfg.hasBase /\ ~cfg.customTarget /\ ~cfg.patIn /\ ~cfg.exportPath

NextOwners ==
    \/ SeqCall(FALSE)
    \/ \E minify \in BOOLEAN : MemberCall(minify)
    \/ PassStep

SpecOwners == InitOwners /\ [][NextOwners]_vars

\* the construction of one unit, for every constructor argument and every
\* state of its config file; a theme path that does not exist has no file
InitInit ==
    /\ cfg \in {c \in Configs : Relevant(c) /\ ~c.hasBase /\ ~c.customTarget /\ ~c.patIn
                                  /\ ~c.exportPath /\ c.ext[X] = "css"
                                  /\ c.mode = "development"}
    /\ disk = InitialDisk(Original, Original)
    /\ Unbundled
    /\ \E arg \in ConfigObjects, pathExists \in BOOLEAN, file \in ConfigFiles :
          /\ ~pathExists => file.state = "missing"
          /\ boot = NewUnit(arg, pathExists, file)

NextInit ==
    \/ Construct
    \/ LoadFileConfig
    \/ InitializeConfig
    \/ Initialize
    \/ BaseLoadFileConfig
    \/ BaseInitializeConfig
    \/ BaseInitialize

SpecInit == InitInit /\ [][NextInit]_vars

\* ================================================================= claims
\* a Theme Collection of the members dark and light and the common theme,
\* all css: the collection watches, and the common theme's file is edited
InitCollection ==
    /\ cfg \in {c \in Configs : /\ c.collection /\ ~c.hasBase /\ c.sass
                                /\ c.ext = [u \in {X, Y} |-> "css"]
                                /\ ~c.customTarget /\ ~c.patIn /\ ~c.exportPath}
    /\ disk = InitialDisk(Original, Original)
    /\ Idle

NextCollection ==
    \/ watchers[K] = <<>> /\ CollectionWatch
    \/ watchers[K] # <<>> /\ \E v \in Values : Change(CommonPath, v)
    \/ \E e \in events : Deliver(e)
    \/ PassStep

SpecCollection == InitCollection /\ [][NextCollection]_vars

\* the same collection started by initialize(), once or again, on sources
\* of any content
InitStartup ==
    /\ cfg \in {c \in Configs : /\ c.collection /\ ~c.hasBase /\ c.sass
                                /\ c.ext = [u \in {X, Y} |-> "css"]
                                /\ ~c.customTarget /\ ~c.patIn /\ ~c.exportPath}
    /\ \E va \in Values, vya \in Values : disk = InitialDisk(va, vya)
    /\ Idle

NextStartup ==
    \/ \E withWatch \in BOOLEAN : CollectionInitialize(withWatch)
    \/ CollectionBundleMembers
    \/ CollectionFinish
    \/ PassStep

SpecStartup == InitStartup /\ [][NextStartup]_vars

\* user code that calls watch() without awaiting it and cleanup(), in any
\* order of the calls and of the continuations of watch()
NextUnwatch ==
    \/ (/\ cleaned.n = 0 /\ watching = {} /\ watchers[X] = <<>>
        /\ \E args \in WatchArgs : WatchCall(args[1], args[2], args[3]))
    \/ \E w \in watching : WatchReady(w) \/ WatchArm(w)
    \/ Cleanup

SpecUnwatch == InitWatch /\ [][NextUnwatch]_vars

\* the number of watch() calls whose watchers X holds: each call arms one
\* path watcher
WatchCalls == Cardinality({i \in DOMAIN watchers[X] : watchers[X][i].kind = "path"})

\* user code that calls watch(callback) several times on a css unit without
\* base theme, then edits a source file: no pass can fail
InitRewatch ==
    InitWatch /\ ~cfg.hasBase /\ ~cfg.patIn /\ ~cfg.customTarget /\ cfg.ext[X] = "css"

NextRewatch ==
    \/ (/\ WatchCalls < MaxWatches /\ changes = 0
        /\ \E bundle \in BOOLEAN : Watch(TRUE, bundle, FALSE))
    \/ watchers[X] # <<>> /\ \E v \in Values : Change(SrcA, v)
    \/ \E e \in events : Deliver(e)
    \/ PassStep

SpecRewatch == InitRewatch /\ [][NextRewatch]_vars

\* the extension the unit constructed from arg and file resolves to
ResolvedExtension(arg, file) ==
    GetExtension(Assign(Assign(GetDefaultConfig, arg), file.payload))

\* the disk an earlier run of the same units has left: the sources and every
\* output file of the unit and of its base theme
EarlierRun ==
    [p \in Paths |->
        IF p \in Sources THEN File(SrcContent(p, Original), 0)
        ELSE IF p \in UNION {Outputs(u) \cup Exported(u) : u \in CleanedUnits(X)}
        THEN File(<<>>, 0)
        ELSE Absent]

\* a unit is constructed over the outputs of an earlier run and cleanup() is
\* called on it, before or after its readiness
InitEarly ==
    /\ \E arg \in ConfigObjects, file \in ConfigFiles :
          /\ file.state # "invalid"
          /\ arg["baseTheme"] \in {Undefined, "themes/light"}
          /\ boot = NewUnit(arg, TRUE, file)
          /\ cfg \in {c \in Configs :
                        /\ Relevant(c) /\ ~c.collection /\ ~c.customTarget /\ ~c.patIn
                        /\ c.mode = "development"
                        /\ c.hasBase = (arg["baseTheme"] # Undefined)
                        /\ c.ext[X] = ResolvedExtension(arg, file)
                        /\ c.hasBase => c.ext[Y] = c.ext[X]}
    /\ disk = EarlierRun
    /\ Unbundled

NextEarly ==
    \/ Construct
    \/ LoadFileConfig
    \/ InitializeConfig
    \/ Initialize
    \/ BaseLoadFileConfig
    \/ BaseInitializeConfig
    \/ BaseInitialize
    \/ UnitCleanup

SpecEarly == InitEarly /\ [][NextEarly]_vars

PassesOf(u) == {q \in passes : q.unit = u}

\* C1: all bundle() calls made on a unit while a call is outstanding share
\* one pass: no _bundle() starts while this.bundlePromise is set, every
\* _bundle() invokes writeStyles() once, and a unit never has two
\* merge->write->transform->export sequences in progress.
C1_Coalescing ==
    /\ [](\A u \in Units :
            /\ Cardinality(PassesOf(u)) <= 1
            /\ writes[u] = started[u] - Cardinality({q \in PassesOf(u) : q.pc = "ready"}))
    /\ [][\A u \in Units :
            (bundlePromise[u] # NoPromise \/ PassesOf(u) # {}) => started'[u] = started[u]]_vars

\* three calls (two un-awaited ones and an awaited one) are outstanding on X
\* and one writeStyles() has run for all of them
C1_Witness ==
    /\ calls = 2 /\ driver.st = "waiting" /\ driver.done = 0
    /\ started[X] = 1 /\ writes[X] = 1

\* C2: n bundle() calls, each awaited before the next is made, invoke
\* writeStyles() n times.
C2_SequentialPasses ==
    (calls = 0 /\ driver.st = "ready") => writes[X] = driver.done

\* ---- watching
WatchingWith(field) == watchers[X] # <<>> /\ watchers[X][1][field]

\* the merge of the sources as they stand: the base theme's output file, then
\* the unit's own files, for one glob ordering
CurrentMerge(u, pf) ==
    (IF BaseTheme(u) = Null THEN <<>> ELSE disk[GetCSSTargetFile(BaseTheme(u))].data)
        \o ConcatCSS(u, GetFiles(u, pf))

\* C3: while X watches with the bundle flag, once every delivered change has
\* been handled (no event pending, no handler or pass outstanding) the target
\* file a pass has written holds the merge of the sources' current contents.
C3_NoMissedUpdates ==
    (/\ Quiescent
     /\ events = {}
     /\ WatchingWith("bundle")
     /\ Exists(GetTargetFile(X)))
    => \E pf \in GetPatternFiles(X) : disk[GetTargetFile(X)].data = CurrentMerge(X, pf)

\* ---- base themes
\* the passes of a child unit that have read their base theme's output
HasReadBase(q) == q.pc = "write" /\ q.baseFile # NoPath

\* C4 (as stated): the base content a child pass prepends was written by the
\* base pass that ran for this child pass.
C4_WrittenForThisPass ==
    \A q \in passes : HasReadBase(q) => disk[q.baseFile].by = q.baseId

\* C4 (amended): a child pass reads the base theme's output only once the
\* base bundle() it awaited has completed its pass and while no base pass is
\* outstanding; what it reads was written by that base pass when that pass
\* wrote the file, and by an earlier pass otherwise, never by a later one.
C4_ReadAfterBasePass ==
    \A q \in passes :
        (q.pc = "baseOk" \/ HasReadBase(q)) =>
            /\ PassesOf(BaseTheme(q.unit)) = {}
            /\ done[BaseTheme(q.unit)].id = q.baseId
            /\ done[BaseTheme(q.unit)].ok
            /\ HasReadBase(q) =>
                /\ disk[q.baseFile].by <= q.baseId
                /\ done[BaseTheme(q.unit)].wroteCSS => disk[q.baseFile].by = q.baseId

\* a child pass has read base output that its own base pass wrote
C4_Witness ==
    \E q \in passes :
        /\ HasReadBase(q)
        /\ q.baseId >= 1
        /\ disk[q.baseFile].by = q.baseId
        /\ disk[q.baseFile].data # <<>>

\* ---- merge order
MergeOrder == <<"ya", "common", "a", "b", "button", "page">>

\* where the file a chunk comes from stands in the merge order
Position(chunk) == CHOOSE i \in 1..Len(MergeOrder) : MergeOrder[i] = chunk.id[1]

HasContentOf(styles, p) ==
    \E i \in 1..Len(styles) : styles[i].id = p.name /\ ~styles[i].hdr

\* C5: the merged styles of a pass of X are, in this order, the base theme's
\* output, the common theme file, the includes a then b, then the pattern
\* matches in pattern order (components, then pages), and the files nobody
\* edits (common, b, page) are all in it.
C5_MergeOrder ==
    \A q \in passes :
        (q.unit = X /\ q.pc = "write") =>
            /\ \A i, j \in 1..Len(q.styles) :
                 i < j => Position(q.styles[i]) <= Position(q.styles[j])
            /\ \A p \in {CommonPath, SrcB, SrcPage} : HasContentOf(q.styles, p)
            /\ \A i, j \in 1..Len(q.styles) :
                 (i # j /\ ~q.styles[i].hdr /\ ~q.styles[j].hdr)
                    => q.styles[i].id # q.styles[j].id

\* a pass has merged base output, common file, a, b and both pattern matches
C5_Witness ==
    \E q \in passes :
        /\ q.unit = X /\ q.pc = "write"
        /\ \A p \in {SrcYA, CommonPath, SrcA, SrcB, SrcButton, SrcPage} :
             HasContentOf(q.styles, p)

\* C6: the merged styles of a pass of X with base theme Y begin with the
\* content of Y's compiled CSS target file as it stands (compiled CSS, not
\* merged SCSS, when Y is an SCSS unit), followed by X's own fragments only.
C6_InheritsCompiledOutput ==
    \A q \in passes :
        (q.unit = X /\ HasReadBase(q)) =>
            LET base == disk[GetCSSTargetFile(Y)].data
            IN  /\ IsPrefix(base, q.styles)
                /\ \A i \in 1..Len(q.styles) :
                     (i <= Len(base)) <=> (q.styles[i].id[1] = "ya")
                /\ Ext(Y) = "scss" =>
                     \A i \in 1..Len(base) : q.styles[i].form = "css"

\* a pass of X has prepended the compiled output of an SCSS base theme
C6_Witness ==
    \E q \in passes :
        /\ q.unit = X /\ HasReadBase(q)
        /\ Ext(Y) = "scss"
        /\ disk[GetCSSTargetFile(Y)].data # <<>>
        /\ Len(q.styles) > Len(disk[GetCSSTargetFile(Y)].data)

\* C7: after a failed pass the unit is idle again: this.bundlePromise is
\* reset, so that the next bundle() starts a pass.
C7_IdleAfterFailure ==
    \A u \in Units : PassesOf(u) = {} => bundlePromise[u] = NoPromise

\* C8: while X watches with a callback, once every delivered change has been
\* handled the callback has been invoked once per accepted change to a
\* source file.
C8_OneCallbackPerChange ==
    (/\ Quiescent
     /\ events = {}
     /\ watchers[X] # <<>>
     /\ watchers[X][1].cb = "user")
    => callbacks = accepted

\* the file lies under the root of one of the patterns of X
UnderPatternRoot(p) ==
    \E i \in 1..Len(GetPatterns(X, FALSE)) : IsPrefix(GetPatterns(X, FALSE)[i].root, p.dir)

\* C9: a change event of X for a file under a pattern root starts a pass iff
\* the file's extension is the unit's and its sub-extension the theme name.
C9_NamingFilter ==
    (/\ lastEvent.kind # "none"
     /\ lastEvent.unit = X
     /\ WatchingWith("bundle")
     /\ UnderPatternRoot(lastEvent.path))
    => (lastEvent.startedPass <=>
            (Extname(lastEvent.path) = Ext(X) /\ SubExt(lastEvent.path) = ThemeName(X)))

\* C10: a change event in the theme directory for a file X generates (its
\* target, its compiled CSS sibling, its minified target) is never accepted:
\* it starts no pass and invokes no callback.
C10_OutputsIgnored ==
    (/\ lastEvent.kind = "path"
     /\ lastEvent.unit = X
     /\ lastEvent.path \in Outputs(X))
    => ~lastEvent.accepted


\* C11: after a cleanup() call, the first and every following one, the
\* files at getTargetFile() and getMinifiedTargetFile() of the unit and
\* their exported copies do not exist, for any configuration of the unit.
C11_CleanupComplete == cleaned.n >= 1 => cleaned.left = {}

\* no unit has a watcher armed
NoWatcher == \A u \in Units : watchers[u] = <<>>

C13_OnePassEach ==
    (watchers[X] # <<>> /\ Quiescent /\ events = {})
        => started[X] = changes /\ started[Y] = changes

\* C14: each file is written by the passes of one unit instance only, also
\* when a directory is both a unit of its own and the base theme of another
\* unit.
C14_SingleWriter == \A p \in Paths : Cardinality(writers[p]) <= 1

\* C15: whatever the theme path, the config file and the base theme path
\* are, the readiness promise of the unit never rejects.
C15_ReadinessResolves == boot.promise # "rejected"

\* the files of unit u that carry what its pass `id` wrote
WrittenBy(u, id) == {p \in Outputs(u) \cup Exported(u) : Exists(p) /\ disk[p].by = id}

\* C16: a pass of a unit that preprocesses (scss with sass installed) and
\* fails leaves every output of the unit as it was before the pass: none
\* carries what the failed pass wrote.
C16_FailedPassWritesNothing ==
    \A u \in {X, Y} :
        (Ext(u) = "scss" /\ cfg.sass /\ done[u].id > 0 /\ ~done[u].ok)
            => WrittenBy(u, done[u].id) = {}

\* C17: a pass whose merged content is empty completes and writes no
\* output file, neither the unminified nor the minified target.
C17_EmptyMergeWritesNothing ==
    \A q \in passes :
        (q.pc = "clear" /\ q.styles = <<>>) => WrittenBy(q.unit, q.id) = {}

\* the pass q has written the minified target of its unit
WroteMinified(q) ==
    /\ Exists(GetMinifiedTargetFile(q.unit))
    /\ disk[GetMinifiedTargetFile(q.unit)].by = q.id

\* C18: a pass writes the minified target only if it was started by
\* bundle(true) or the mode is production, and a pass that runs to its end
\* has then written it; a development bundle(false) pass leaves the
\* minified target as it was.
C18_MinifiedIffRequested ==
    \A q \in passes :
        /\ WroteMinified(q) => (q.minify \/ cfg.mode = "production")
        /\ q.pc = "clear" => (WroteMinified(q) <=> (q.minify \/ cfg.mode = "production"))

C18_Witness ==
    \E q \in passes :
        /\ q.unit = X /\ q.pc = "clear"
        /\ cfg.mode = "development" /\ q.minify
        /\ WroteMinified(q)
        /\ Exists(GetTargetFile(X)) /\ disk[GetTargetFile(X)].by = q.id

\* C19: after readiness, every key set both in the config file and in the
\* constructor argument has the constructor's value in the resolved
\* config.
C19_ConstructorWins ==
    (boot.promise = "resolved" /\ boot.file.state = "valid")
        => \A k \in Keys :
              (boot.arg[k] # Undefined /\ boot.file.payload[k] # Undefined)
                  => boot.config[k] = boot.arg[k]

\* C20: after readiness, a unit whose config file sets baseTheme owns a
\* base unit, as it does when the constructor argument sets it.
C20_FileBaseThemeHonoured ==
    (boot.promise = "resolved" /\ boot.file.state = "valid"
        /\ boot.file.payload["baseTheme"] # Undefined)
        => boot.baseTheme # NoBase

\* C21: a unit constructed with includes [a, b], whose config file declares
\* no includes, has getIncludes() = <path>/a.<extension>, <path>/b.<extension>
\* after readiness.
C21_ConstructorIncludes ==
    (boot.promise = "resolved" /\ boot.pathExists
        /\ boot.arg["includes"] = IncludesAB
        /\ boot.file.payload["includes"] = Undefined)
        => UnitIncludes = <<MkPath(XPath, <<"a", boot.extension>>),
                            MkPath(XPath, <<"b", boot.extension>>)>>

\* ---- Theme Collection
\* C22: in a watching collection with a common theme, once every delivered
\* change of the common theme's file has been handled, the target file of
\* every member holds the merge of the sources as they stand, the changed
\* common content with them.
C22_CommonChangeReachesAll ==
    (/\ cfg.collection
     /\ watchers[K] # <<>>
     /\ changes > 0
     /\ Quiescent
     /\ events = {})
    => \A m \in Members :
          /\ Exists(GetTargetFile(m))
          /\ \E pf \in GetPatternFiles(m) :
                disk[GetTargetFile(m)].data = ConcatCSS(m, GetFiles(m, pf))
SelfReferential ==
    /\ boot.arg["baseTheme"] = "themes/light"
    /\ boot.base.pc # "none"
    /\ boot.base.file.payload["baseTheme"] = DarkPath

C25_MissingBaseTargetTolerated ==
    \A q \in passes :
        (/\ BaseTheme(q.unit) # Null
         /\ q.baseId > 0
         /\ done[BaseTheme(q.unit)].id = q.baseId
         /\ done[BaseTheme(q.unit)].ok
         /\ ~Exists(BaseThemeOutput(BaseTheme(q.unit))))
        => q.pc # "baseFail"
\* ---- watch() and cleanup()
\* C26: when watch() was called before cleanup(), then once cleanup() has
\* returned and every continuation of watch() has run, the unit and its
\* base theme have no watcher armed.
C26_CleanupCancelsWatch == (cleaned.n > 0 /\ watching = {}) => NoWatcher
\* C27: after any number of watch(callback) calls on a unit, once every
\* delivered change has been handled the callback has been invoked exactly
\* once per accepted change, and one clearWatchers() would close every
\* handle armed (each is in this.watchers).
C27_NoDuplicateListeners ==
    (/\ Quiescent
     /\ events = {}
     /\ WatchCalls >= 1
     /\ \A i \in DOMAIN watchers[X] : watchers[X][i].cb = "user")
    => /\ callbacks = accepted
       /\ ClearWatchers(watchers, {X})[X] = <<>>
\* the file p is covered by a watcher of unit u whose listener accepts it
Watched(u, p) ==
    \E i \in DOMAIN watchers[u] :
        Covers(watchers[u][i], p) /\ Accepts(u, watchers[u][i], p)

\* C28: while X watches, every file getFiles() returns (the common theme
\* file, each include, each pattern match) is covered by one of X's watchers
\* and passes that watcher's filter.
C28_WatchCoversBundle ==
    watchers[X] # <<>>
        => \A pf \in GetPatternFiles(X) :
              \A i \in DOMAIN GetFiles(X, pf) : Watched(X, GetFiles(X, pf)[i])
\* C29: a cleanup() called at any point after construction, before the
\* readiness promise has resolved or after, leaves none of the target,
\* compiled CSS and minified files of an earlier run, of the unit and of its
\* base theme: the files a cleanup() after readiness removes.
C29_CleanupAnyTime ==
    cleaned.n >= 1
        => \A u \in CleanedUnits(X) : \A p \in CleanupFiles(u) : ~Exists(p)
\* ---- the minify flag of a coalesced call
\* C30: a pass keeps the minify flag of the bundle() call that started it:
\* a bundle(true) call that joins an outstanding bundle(false) pass changes
\* neither the pass nor the promise and starts nothing, the pass writes no
\* minified target on its account (development mode), and a pass only ever
\* starts in the step of a bundle() call made while no promise is set.
C30_CoalescedFlagDropped ==
    /\ [](\A q \in passes :
            (q.asked /\ ~q.minify /\ cfg.mode = "development") => ~WroteMinified(q))
    /\ [][(calls' = calls + 1 /\ bundlePromise[X] # NoPromise)
            => /\ started' = started
               /\ bundlePromise' = bundlePromise
               /\ \A q2 \in passes' : \E q \in passes :
                     q.unit = q2.unit /\ q.id = q2.id /\ q.minify = q2.minify]_vars
    /\ [][started'[X] # started[X]
            => bundlePromise[X] = NoPromise /\ (calls' # calls \/ driver' # driver)]_vars

\* a development bundle(false) pass that a bundle(true) call has joined has
\* run to its end and no minified target exists
C30_Witness ==
    \E q \in passes :
        /\ q.unit = X /\ q.pc = "clear"
        /\ q.asked /\ ~q.minify
        /\ cfg.mode = "development"
        /\ ~Exists(GetMinifiedTargetFile(X))
====
